---- MODULE Spec2Model ----
(***************************************************************************)
(* figma-tinifier-server: an HTTP relay in front of the Tinify image       *)
(* compression service.  The model follows the Express application of      *)
(* src/unnamed/part_000 (GET /api/status, POST /api/compress,              *)
(* POST /api/compress/binary, compressImage, handleCompressionError) and   *)
(* the older single-endpoint application of src/server.js (POST            *)
(* /api/compress with the pipeline written inline).                        *)
(*                                                                         *)
(* Node runs a handler without interruption up to its `await`, so a        *)
(* handler is two atomic steps: the part up to the await (the request      *)
(* action) and the continuation after the awaited promise settles (the     *)
(* respond action).  Between the two the external service acts.            *)
(*                                                                         *)
(* Buffers are modelled by their length.  Strings that the code inspects   *)
(* (request fields) are sequences of one-character strings; literal texts  *)
(* of the code (error names, messages) are TLA+ strings.                   *)
(***************************************************************************)
EXTENDS Integers, Sequences, FiniteSets, TLC

VARIABLES req, pc, locals, ops, shrunk, outcome, responses, remoteCount,
          compressionCount

vars == <<req, pc, locals, ops, shrunk, outcome, responses, remoteCount,
          compressionCount>>

(***************************************************************************)
(* Bounds of the model.                                                    *)
(***************************************************************************)
NumReqs == 2
MaxOutputSize == 2

Reqs == 1 .. NumReqs

(***************************************************************************)
(* JavaScript values.                                                      *)
(***************************************************************************)
Undefined == [t |-> "undefined"]
NaN == [t |-> "NaN"]
NegInfinity == [t |-> "-Infinity"]
Num(n) == [t |-> "number", n |-> n]
Str(s) == [t |-> "string", s |-> s]
File(size) == [t |-> "file", size |-> size]
Text(v) == [t |-> "text", v |-> v]
True == [t |-> "boolean", v |-> TRUE]

\* JavaScript truthiness, as used by `!image`, `width || height`, `format || 'png'`
Truthy(v) ==
    CASE v.t = "undefined" -> FALSE
      [] v.t = "NaN" -> FALSE
      [] v.t = "number" -> v.n # 0
      [] v.t = "string" -> v.s # <<>>
      [] OTHER -> TRUE

\* a || b
Or(a, b) == IF Truthy(a) THEN a ELSE b

Digits == <<"0", "1", "2", "3", "4", "5", "6", "7", "8", "9">>

IsDigit(c) == \E d \in 1 .. 10 : Digits[d] = c

DigitValue(c) == (CHOOSE d \in 1 .. 10 : Digits[d] = c) - 1

RECURSIVE NatToString(_)
\* String(n) for an integer n >= 0
NatToString(n) ==
    IF n < 10 THEN <<Digits[n + 1]>>
    ELSE NatToString(n \div 10) \o <<Digits[(n % 10) + 1]>>

\* Number.prototype.toString for an integer
IntToString(n) == IF n < 0 THEN <<"-">> \o NatToString(0 - n) ELSE NatToString(n)

\* String(v) for the values the handlers turn into header text
JsString(v) ==
    CASE v.t = "number" -> IntToString(v.n)
      [] v.t = "NaN" -> <<"N", "a", "N">>
      [] v.t = "-Infinity" -> <<"-", "I", "n", "f", "i", "n", "i", "t", "y">>
      [] v.t = "string" -> v.s
      [] OTHER -> <<"u", "n", "d", "e", "f", "i", "n", "e", "d">>

RECURSIVE ParseDigits(_, _, _)
\* the integer read from the leading decimal digits of s, from position i on;
\* NaN when there is no leading digit
ParseDigits(s, i, acc) ==
    IF i <= Len(s) /\ IsDigit(s[i])
    THEN ParseDigits(s, i + 1, Num((IF acc.t = "number" THEN acc.n * 10 ELSE 0) + DigitValue(s[i])))
    ELSE acc

\* parseInt(v): the argument is converted to a string, then its leading digits are read
\* (the request fields of the model carry no sign and no white space)
parseInt(v) == ParseDigits(JsString(v), 1, NaN)

Base64Alphabet ==
    {"A", "B", "C", "D", "E", "F", "G", "H", "I", "J", "K", "L", "M",
     "N", "O", "P", "Q", "R", "S", "T", "U", "V", "W", "X", "Y", "Z",
     "a", "b", "c", "d", "e", "f", "g", "h", "i", "j", "k", "l", "m",
     "n", "o", "p", "q", "r", "s", "t", "u", "v", "w", "x", "y", "z",
     "0", "1", "2", "3", "4", "5", "6", "7", "8", "9", "+", "/", "-", "_"}

RECURSIVE Base64Symbols(_, _)
\* the number of base64 symbols of s from position i up to the first "=";
\* characters outside the alphabet are skipped
Base64Symbols(s, i) ==
    IF i > Len(s) \/ s[i] = "=" THEN 0
    ELSE (IF s[i] \in Base64Alphabet THEN 1 ELSE 0) + Base64Symbols(s, i + 1)

\* Buffer.from(image, 'base64').length
Base64DecodedLength(s) == (Base64Symbols(s, 1) * 6) \div 8

\* Math.round((1 - compressed / original) * 100)
Savings(original, compressed) ==
    IF original = 0
    THEN (IF compressed = 0 THEN NaN ELSE NegInfinity)
    ELSE Num(100 + ((original - 200 * compressed) \div (2 * original)))

\* text of the request fields and of the literals they are compared with
S_png == <<"p", "n", "g">>
S_jpg == <<"j", "p", "g">>
S_jpeg == <<"j", "p", "e", "g">>
S_webp == <<"w", "e", "b", "p">>
S_avif == <<"a", "v", "i", "f">>
S_white == <<"w", "h", "i", "t", "e">>
S_red == <<"r", "e", "d">>
S_image == <<"i", "m", "a", "g", "e", "/">>

\* the template literal `image/${sub}`
ImageType(sub) == S_image \o sub

\* Node's setHeader accepts a header value only without control characters
ValidHeaderValue(s) == \A i \in 1 .. Len(s) : s[i] \notin {"\n", "\r"}

(***************************************************************************)
(* Responses.  kind is "json" (res.json), "binary" (res.send of a buffer)  *)
(* or "html" (the page of the framework's default error handler).          *)
(***************************************************************************)
Response(status, kind) ==
    [status |-> status, kind |-> kind, success |-> Undefined, state |-> Undefined,
     error |-> Undefined,
     message |-> Undefined, contentType |-> Undefined, size |-> Undefined,
     originalSize |-> Undefined, compressedSize |-> Undefined,
     savings |-> Undefined, count |-> Undefined]

\* res.status(status).json({ error, message })
JsonError(status, error, message) ==
    [Response(status, "json") EXCEPT !.error = Text(error), !.message = message]

\* the dimension used for an axis the request leaves out
DefaultDimension == 9999

\* multer's limits.fileSize
FileSizeLimit == 50 * 1024 * 1024

\* a variant that posts the image again (a retry): the single-submission
\* property must reject it
FromBuffer_retry(size) ==
    <<[op |-> "fromBuffer", size |-> size], [op |-> "fromBuffer", size |-> size]>>

\* tinify.fromBuffer(imageBuffer)
FromBuffer(size) == <<[op |-> "fromBuffer", size |-> size]>>

\* a variant that resizes only when both dimensions are given (&& for ||):
\* the resize property must reject it
ResizeStep_and(options) ==
    IF Truthy(options.width) /\ Truthy(options.height)
    THEN <<[op |-> "resize", method |-> "fit",
            width |-> parseInt(options.width), height |-> parseInt(options.height)]>>
    ELSE <<>>

\* if (width || height) result = result.resize({ method: 'fit', ... })
ResizeStep(options) ==
    IF Truthy(options.width) \/ Truthy(options.height)
    THEN <<[op |-> "resize", method |-> "fit",
            width |-> IF Truthy(options.width) THEN parseInt(options.width)
                      ELSE Num(DefaultDimension),
            height |-> IF Truthy(options.height) THEN parseInt(options.height)
                       ELSE Num(DefaultDimension)]>>
    ELSE <<>>

\* const outputFormat = format || 'png'
OutputFormat(options) == Or(options.format, Str(S_png))

\* if (outputFormat !== 'png') result = result.convert({ type: `image/...` })
ConvertStep(options) ==
    LET outputFormat == OutputFormat(options)
    IN  IF outputFormat # Str(S_png)
        THEN <<[op |-> "convert",
                type |-> ImageType(IF outputFormat = Str(S_jpg) THEN S_jpeg
                                   ELSE outputFormat.s)]>>
        ELSE <<>>

\* if (outputFormat === 'jpeg' || outputFormat === 'jpg') result = result.transform(...)
TransformStep(options) ==
    LET outputFormat == OutputFormat(options)
    IN  IF outputFormat = Str(S_jpeg) \/ outputFormat = Str(S_jpg)
        THEN <<[op |-> "transform",
                background |-> Or(options.background, Str(S_white))]>>
        ELSE <<>>

\* await result.toBuffer()
ToBuffer == <<[op |-> "toBuffer"]>>

\* a variant that fills the background before it converts: the ordering
\* property must reject it
compressImage_swapped(size, options) ==
    [chain |-> FromBuffer(size) \o ResizeStep(options) \o TransformStep(options)
               \o ConvertStep(options) \o ToBuffer,
     format |-> OutputFormat(options)]

\* compressImage up to its await: the calls made on the client library, in
\* order, and the format it will return
compressImage(size, options) ==
    [chain |-> FromBuffer(size) \o ResizeStep(options) \o ConvertStep(options)
               \o TransformStep(options) \o ToBuffer,
     format |-> OutputFormat(options)]

\* the try block of server.js's POST /api/compress, from the decoded image to
\* its await: the same steps, written inline
InlineChain(size, options) ==
    LET resized ==
            IF Truthy(options.width) \/ Truthy(options.height)
            THEN <<[op |-> "resize", method |-> "fit",
                    width |-> IF Truthy(options.width) THEN parseInt(options.width)
                              ELSE Num(DefaultDimension),
                    height |-> IF Truthy(options.height) THEN parseInt(options.height)
                               ELSE Num(DefaultDimension)]>>
            ELSE <<>>
        outputFormat == Or(options.format, Str(S_png))
        converted ==
            IF outputFormat # Str(S_png)
            THEN <<[op |-> "convert",
                    type |-> ImageType(IF outputFormat = Str(S_jpg) THEN S_jpeg
                                       ELSE outputFormat.s)]>>
            ELSE <<>>
        transformed ==
            IF outputFormat = Str(S_jpeg) \/ outputFormat = Str(S_jpg)
            THEN <<[op |-> "transform",
                    background |-> Or(options.background, Str(S_white))]>>
            ELSE <<>>
    IN  [chain |-> <<[op |-> "fromBuffer", size |-> size]>> \o resized \o converted
                   \o transformed \o <<[op |-> "toBuffer"]>>,
         format |-> outputFormat]

\* a variant without the 429 branch: the classification property must reject it
handleCompressionError_no429(error) ==
    IF error.status = Num(401)
    THEN <<JsonError(401, "Invalid API key", Text("Check your TINIFY_API_KEY in .env file"))>>
    ELSE <<JsonError(500, "Compression failed", error.message)>>

\* a variant whose 401 branch does not return, so that the 500 is sent as
\* well: the one-response property must reject it
handleCompressionError_fallthrough(error) ==
    (IF error.status = Num(401)
     THEN <<JsonError(401, "Invalid API key", Text("Check your TINIFY_API_KEY in .env file"))>>
     ELSE <<>>)
    \o (IF error.status = Num(429)
        THEN <<JsonError(429, "Rate limited",
                         Text("Monthly compression limit reached (500 for free tier)"))>>
        ELSE <<JsonError(500, "Compression failed", error.message)>>)

\* handleCompressionError: the responses it sends
handleCompressionError(error) ==
    IF error.status = Num(401)
    THEN <<JsonError(401, "Invalid API key", Text("Check your TINIFY_API_KEY in .env file"))>>
    ELSE IF error.status = Num(429)
    THEN <<JsonError(429, "Rate limited",
                     Text("Monthly compression limit reached (500 for free tier)"))>>
    ELSE <<JsonError(500, "Compression failed", error.message)>>

\* the catch block of server.js's POST /api/compress
InlineCatch(error) ==
    IF error.status = Num(401)
    THEN <<JsonError(401, "Invalid API key", Text("Check your TINIFY_API_KEY in .env file"))>>
    ELSE IF error.status = Num(429)
    THEN <<JsonError(429, "Rate limited",
                     Text("Monthly compression limit reached (500 for free tier)"))>>
    ELSE <<JsonError(500, "Compression failed", error.message)>>

\* a variant that forgets res.status(400): the missing-input property must
\* reject it
MissingImage_noStatus(message) == JsonError(200, "Missing image data", Text(message))

\* the 400 of a handler that finds no image
MissingImage(message) == JsonError(400, "Missing image data", Text(message))

\* if (!image) / if (!req.file)
IsMissing(image) == ~Truthy(image)

\* a variant that answers a failed validation with 500: the status property
\* must reject it
StatusError_500(error) ==
    [Response(500, "json") EXCEPT !.state = Text("error"),
                                  !.error = Text("Invalid API key"),
                                  !.message = error.message]

\* the catch block of GET /api/status
StatusError(error) ==
    [Response(401, "json") EXCEPT !.state = Text("error"),
                                  !.error = Text("Invalid API key"),
                                  !.message = error.message]

\* the success body of GET /api/status
StatusOk ==
    [Response(200, "json") EXCEPT !.state = Text("ok"),
                                  !.count = Or(compressionCount, Num(0)),
                                  !.message = Text("API key validated successfully")]

\* with no error-handling middleware registered, an error passed to next()
\* by a middleware reaches the framework's default handler: an HTML page
\* with the error's status, 500 when it has none
DefaultErrorHandler(error) ==
    Response(IF error.status.t = "number" THEN error.status.n ELSE 500, "html")

\* errors: a status (or none) and a message
Error(status, message) ==
    [t |-> "error", status |-> status, message |-> Text(message)]

\* the number of images a chain of calls submits
Submits(chain) == Cardinality({i \in 1 .. Len(chain) : chain[i].op = "fromBuffer"})

(***************************************************************************)
(* Requests.  A JSON body and the text fields of a multipart form carry    *)
(* the same five names; a multipart request carries the file apart.        *)
(***************************************************************************)
Body(image, format, width, height, background) ==
    [image |-> image, format |-> format, width |-> width, height |-> height,
     background |-> background]

NoRequest == [ep |-> "none"]
NoLocals == [imageSize |-> 0, format |-> Undefined]

Request(ep, body, file) == [ep |-> ep, body |-> body, file |-> file]

Images ==
    {Undefined, Str(<<>>), Str(<<"!", "!", "!", "!">>), Str(<<"Q", "Q", "=", "=">>),
     Str(<<"Q", "U", "J", "D">>)}

Formats ==
    {Undefined, Str(<<>>), Str(S_png), Str(S_jpg), Str(S_jpeg), Str(S_webp),
     Str(S_avif), Str(S_webp \o <<"\n">>)}

JsonDimensions == {Undefined, Num(0), Num(12)}

FormDimensions == {Undefined, Str(<<>>), Str(<<"0">>), Str(<<"1", "2">>)}

Backgrounds == {Undefined, Str(<<>>), Str(S_red)}

Files == {Undefined, File(0), File(2), File(FileSizeLimit), File(FileSizeLimit + 1)}

\* what the external service and the connection to it can fail with
BackendErrors ==
    {Error(Num(401), "Credentials are invalid"),
     Error(Num(429), "Your monthly limit has been exceeded"),
     Error(Num(415), "File type is not supported"),
     Error(Undefined, "Error while connecting")}

OutputSizes == 1 .. MaxOutputSize

JsonBodies ==
    {Body(i, f, w, h, b) : i \in Images, f \in Formats, w \in JsonDimensions,
                           h \in JsonDimensions, b \in Backgrounds}

FormBodies ==
    {Body(Undefined, f, w, h, b) : f \in Formats, w \in FormDimensions,
                                   h \in FormDimensions, b \in Backgrounds}

\* the requests of the several-clients specification: one of each shape
FewJsonBodies ==
    {Body(i, f, Undefined, Undefined, Undefined) :
        i \in {Undefined, Str(<<"Q", "U", "J", "D">>)}, f \in {Undefined, Str(S_jpg)}}

FewFormBodies ==
    {Body(Undefined, Undefined, Str(<<"1", "2">>), Undefined, Undefined),
     Body(Undefined, Str(S_webp \o <<"\n">>), Undefined, Undefined, Undefined)}

FewFiles == {Undefined, File(2), File(FileSizeLimit + 1)}

FewOutputSizes == {1}

\* The state once the server listens.  The listen callback has called
\* tinify.validate(), whose answer only is logged: compressionCount is the
\* count of that answer, or undefined while there is none.  remoteCount is
\* the service's count of the month, taken from the server's start.
Init ==
    /\ req = [r \in Reqs |-> NoRequest]
    /\ pc = [r \in Reqs |-> "idle"]
    /\ locals = [r \in Reqs |-> NoLocals]
    /\ ops = [r \in Reqs |-> <<>>]
    /\ shrunk = [r \in Reqs |-> 0]
    /\ outcome = [r \in Reqs |-> Undefined]
    /\ responses = [r \in Reqs |-> <<>>]
    /\ remoteCount = 0
    /\ compressionCount \in {Undefined, Num(0)}

(***************************************************************************)
(* GET /api/status                                                         *)
(***************************************************************************)
StatusRequest(r) ==
    /\ pc[r] = "idle"
    /\ req' = [req EXCEPT ![r] = Request("status", Undefined, Undefined)]
    /\ ops' = [ops EXCEPT ![r] = <<[op |-> "validate"]>>]
    /\ pc' = [pc EXCEPT ![r] = "awaiting"]
    /\ UNCHANGED <<locals, shrunk, outcome, responses, remoteCount, compressionCount>>

StatusRespond(r) ==
    /\ req[r].ep = "status"
    /\ pc[r] \in {"resolved", "rejected"}
    /\ responses' = [responses EXCEPT ![r] =
           Append(@, IF pc[r] = "resolved" THEN StatusOk ELSE StatusError(outcome[r]))]
    /\ pc' = [pc EXCEPT ![r] = "done"]
    /\ UNCHANGED <<req, locals, ops, shrunk, outcome, remoteCount, compressionCount>>

(***************************************************************************)
(* express.json: a body it cannot parse, or one over its size limit, is    *)
(* passed to next() as an error and the route handler never runs.          *)
(***************************************************************************)
JsonBodyRejected(r, status) ==
    /\ pc[r] = "idle"
    /\ req' = [req EXCEPT ![r] = Request("json", Undefined, Undefined)]
    /\ responses' = [responses EXCEPT ![r] =
           Append(@, DefaultErrorHandler(Error(Num(status), "request body rejected")))]
    /\ pc' = [pc EXCEPT ![r] = "done"]
    /\ UNCHANGED <<locals, ops, shrunk, outcome, remoteCount, compressionCount>>

(***************************************************************************)
(* POST /api/compress                                                      *)
(***************************************************************************)
CompressRequest(r, body) ==
    /\ pc[r] = "idle"
    /\ req' = [req EXCEPT ![r] = Request("json", body, Undefined)]
    /\ IF IsMissing(body.image)
       THEN /\ responses' = [responses EXCEPT ![r] =
                   Append(@, MissingImage("Please provide base64-encoded image data"))]
            /\ pc' = [pc EXCEPT ![r] = "done"]
            /\ UNCHANGED <<locals, ops>>
       ELSE LET imageSize == Base64DecodedLength(body.image.s)
                result == compressImage(imageSize, body)
            IN  /\ locals' = [locals EXCEPT ![r] =
                       [imageSize |-> imageSize, format |-> result.format]]
                /\ ops' = [ops EXCEPT ![r] = result.chain]
                /\ pc' = [pc EXCEPT ![r] = "awaiting"]
                /\ UNCHANGED responses
    /\ UNCHANGED <<shrunk, outcome, remoteCount, compressionCount>>

\* res.json({ success: true, ... }) of POST /api/compress
CompressSuccess(imageSize, bufferSize) ==
    [Response(200, "json") EXCEPT
        !.success = True,
        !.size = Num(bufferSize),
        !.originalSize = Num(imageSize),
        !.compressedSize = Num(bufferSize),
        !.savings = Savings(imageSize, bufferSize),
        !.count = compressionCount]

CompressRespond(r) ==
    /\ req[r].ep = "json"
    /\ pc[r] \in {"resolved", "rejected"}
    /\ responses' = [responses EXCEPT ![r] =
           IF pc[r] = "resolved"
           THEN Append(@, CompressSuccess(locals[r].imageSize, outcome[r].size))
           ELSE @ \o handleCompressionError(outcome[r])]
    /\ pc' = [pc EXCEPT ![r] = "done"]
    /\ UNCHANGED <<req, locals, ops, shrunk, outcome, remoteCount, compressionCount>>

(***************************************************************************)
(* POST /api/compress/binary                                               *)
(***************************************************************************)
\* upload.single('image'): a file over limits.fileSize is passed to next()
\* as an error without a status
UploadRejected(r, body, file) ==
    /\ pc[r] = "idle"
    /\ file.t = "file"
    /\ file.size > FileSizeLimit
    /\ req' = [req EXCEPT ![r] = Request("binary", body, file)]
    /\ responses' = [responses EXCEPT ![r] =
           Append(@, DefaultErrorHandler(Error(Undefined, "File too large")))]
    /\ pc' = [pc EXCEPT ![r] = "done"]
    /\ UNCHANGED <<locals, ops, shrunk, outcome, remoteCount, compressionCount>>

CompressBinaryRequest(r, body, file) ==
    /\ pc[r] = "idle"
    /\ file.t = "file" => file.size <= FileSizeLimit
    /\ req' = [req EXCEPT ![r] = Request("binary", body, file)]
    /\ IF IsMissing(file)
       THEN /\ responses' = [responses EXCEPT ![r] =
                   Append(@, MissingImage("Please provide image file"))]
            /\ pc' = [pc EXCEPT ![r] = "done"]
            /\ UNCHANGED <<locals, ops>>
       ELSE LET imageSize == file.size
                result == compressImage(imageSize, body)
            IN  /\ locals' = [locals EXCEPT ![r] =
                       [imageSize |-> imageSize, format |-> result.format]]
                /\ ops' = [ops EXCEPT ![r] = result.chain]
                /\ pc' = [pc EXCEPT ![r] = "awaiting"]
                /\ UNCHANGED responses
    /\ UNCHANGED <<shrunk, outcome, remoteCount, compressionCount>>

\* res.set({ ... }); res.send(result.buffer)
BinarySuccess(imageSize, bufferSize, format) ==
    [Response(200, "binary") EXCEPT
        !.contentType = Str(ImageType(format.s)),
        !.size = Num(bufferSize),
        !.originalSize = Str(JsString(Num(imageSize))),
        !.compressedSize = Str(JsString(Num(bufferSize))),
        !.savings = Str(JsString(Savings(imageSize, bufferSize))),
        !.count = Str(JsString(Or(compressionCount, Num(0))))]

\* res.set throws a TypeError on a header value it cannot send; no header
\* has been written then, and the catch block answers
CompressBinaryRespond(r) ==
    /\ req[r].ep = "binary"
    /\ pc[r] \in {"resolved", "rejected"}
    /\ responses' = [responses EXCEPT ![r] =
           IF pc[r] = "rejected"
           THEN @ \o handleCompressionError(outcome[r])
           ELSE IF ~ValidHeaderValue(ImageType(locals[r].format.s))
           THEN @ \o handleCompressionError(
                        Error(Undefined, "Invalid character in header content"))
           ELSE Append(@, BinarySuccess(locals[r].imageSize, outcome[r].size,
                                        locals[r].format))]
    /\ pc' = [pc EXCEPT ![r] = "done"]
    /\ UNCHANGED <<req, locals, ops, shrunk, outcome, remoteCount, compressionCount>>

(***************************************************************************)
(* server.js: POST /api/compress with the pipeline inline                  *)
(***************************************************************************)
InlineCompressRequest(r, body) ==
    /\ pc[r] = "idle"
    /\ req' = [req EXCEPT ![r] = Request("inline", body, Undefined)]
    /\ IF IsMissing(body.image)
       THEN /\ responses' = [responses EXCEPT ![r] =
                   Append(@, MissingImage("Please provide base64-encoded image data"))]
            /\ pc' = [pc EXCEPT ![r] = "done"]
            /\ UNCHANGED <<locals, ops>>
       ELSE LET imageSize == Base64DecodedLength(body.image.s)
                result == InlineChain(imageSize, body)
            IN  /\ locals' = [locals EXCEPT ![r] =
                       [imageSize |-> imageSize, format |-> result.format]]
                /\ ops' = [ops EXCEPT ![r] = result.chain]
                /\ pc' = [pc EXCEPT ![r] = "awaiting"]
                /\ UNCHANGED responses
    /\ UNCHANGED <<shrunk, outcome, remoteCount, compressionCount>>

InlineCompressRespond(r) ==
    /\ req[r].ep = "inline"
    /\ pc[r] \in {"resolved", "rejected"}
    /\ responses' = [responses EXCEPT ![r] =
           IF pc[r] = "resolved"
           THEN Append(@, CompressSuccess(locals[r].imageSize, outcome[r].size))
           ELSE @ \o InlineCatch(outcome[r])]
    /\ pc' = [pc EXCEPT ![r] = "done"]
    /\ UNCHANGED <<req, locals, ops, shrunk, outcome, remoteCount, compressionCount>>

(***************************************************************************)
(* The external service, as the client library shows it to the handlers.   *)
(* fromBuffer posts the image at once; an accepted image is one            *)
(* compression of the month.  toBuffer's promise resolves with the output  *)
(* or rejects with the error of whichever call failed.  Every answer of    *)
(* the service that carries the count refreshes tinify.compressionCount.   *)
(***************************************************************************)
BackendShrink(r) ==
    /\ pc[r] = "awaiting"
    /\ shrunk[r] < Submits(ops[r])
    /\ shrunk' = [shrunk EXCEPT ![r] = @ + 1]
    /\ remoteCount' = remoteCount + 1
    /\ compressionCount' = Num(remoteCount')
    /\ UNCHANGED <<req, pc, locals, ops, outcome, responses>>

BackendOutput(r, size) ==
    /\ pc[r] = "awaiting"
    /\ Submits(ops[r]) > 0
    /\ shrunk[r] = Submits(ops[r])
    /\ outcome' = [outcome EXCEPT ![r] = [t |-> "buffer", size |-> size]]
    /\ pc' = [pc EXCEPT ![r] = "resolved"]
    /\ compressionCount' = Num(remoteCount)
    /\ UNCHANGED <<req, locals, ops, shrunk, responses, remoteCount>>

BackendValidate(r, counted) ==
    /\ pc[r] = "awaiting"
    /\ ops[r] = <<[op |-> "validate"]>>
    /\ pc' = [pc EXCEPT ![r] = "resolved"]
    /\ compressionCount' = IF counted THEN Num(remoteCount) ELSE compressionCount
    /\ UNCHANGED <<req, locals, ops, shrunk, outcome, responses, remoteCount>>

BackendError(r, error) ==
    /\ pc[r] = "awaiting"
    /\ outcome' = [outcome EXCEPT ![r] = error]
    /\ pc' = [pc EXCEPT ![r] = "rejected"]
    /\ UNCHANGED <<req, locals, ops, shrunk, responses, remoteCount, compressionCount>>

Backend(r, sizes, errors) ==
    \/ BackendShrink(r)
    \/ \E size \in sizes : BackendOutput(r, size)
    \/ \E counted \in BOOLEAN : BackendValidate(r, counted)
    \/ \E error \in errors : BackendError(r, error)

(***************************************************************************)
(* Spec: the application of part_000 serving NumReqs clients at once.      *)
(***************************************************************************)
Next ==
    \/ \E r \in Reqs :
        \/ StatusRequest(r)
        \/ StatusRespond(r)
        \/ JsonBodyRejected(r, 400)
        \/ \E body \in FewJsonBodies : CompressRequest(r, body)
        \/ CompressRespond(r)
        \/ \E body \in FewFormBodies, file \in FewFiles : UploadRejected(r, body, file)
        \/ \E body \in FewFormBodies, file \in FewFiles :
              CompressBinaryRequest(r, body, file)
        \/ CompressBinaryRespond(r)
        \/ Backend(r, FewOutputSizes, BackendErrors)

Spec == Init /\ [][Next]_vars

(***************************************************************************)
(* SpecRequest: one request, of any shape, to either application.          *)
(***************************************************************************)
NextRequest ==
    \/ StatusRequest(1)
    \/ StatusRespond(1)
    \/ \E status \in {400, 413} : JsonBodyRejected(1, status)
    \/ \E body \in JsonBodies : CompressRequest(1, body)
    \/ CompressRespond(1)
    \/ \E body \in FormBodies, file \in Files : UploadRejected(1, body, file)
    \/ \E body \in FormBodies, file \in Files : CompressBinaryRequest(1, body, file)
    \/ CompressBinaryRespond(1)
    \/ \E body \in JsonBodies : InlineCompressRequest(1, body)
    \/ InlineCompressRespond(1)
    \/ Backend(1, OutputSizes, BackendErrors)

SpecRequest == Init /\ [][NextRequest]_vars

(***************************************************************************)
(* Properties.                                                             *)
(***************************************************************************)
IsCompress(r) == req[r].ep \in {"json", "binary", "inline"}

\* compressImage (or the inline pipeline) was called for r
ReachedPipeline(r) == IsCompress(r) /\ ops[r] # <<>>

\* the await of r has settled and its continuation has run
Answered(r) == pc[r] = "done"

OpNames(chain) == [i \in 1 .. Len(chain) |-> chain[i].op]

Has(chain, name) == \E i \in 1 .. Len(chain) : chain[i].op = name

Step(chain, name) == chain[CHOOSE i \in 1 .. Len(chain) : chain[i].op = name]

\* C1: on either compress endpoint a failure of the pipeline is classified by
\* the error's status alone: 401 gives 401 "Invalid API key", 429 gives 429
\* "Rate limited" with the message naming the limit of 500, anything else
\* (another status, or none) gives 500 "Compression failed" with the error's
\* own message; a failed pipeline never gets a success response.
C1_ErrorClassification ==
    \A r \in Reqs :
        (IsCompress(r) /\ Answered(r) /\ outcome[r].t = "error") =>
            /\ Len(responses[r]) = 1
            /\ LET res == responses[r][1]
                   st == outcome[r].status
               IN  /\ res.kind = "json"
                   /\ res.success # True
                   /\ st = Num(401) =>
                        res.status = 401 /\ res.error = Text("Invalid API key")
                   /\ st = Num(429) =>
                        /\ res.status = 429
                        /\ res.error = Text("Rate limited")
                        /\ res.message =
                             Text("Monthly compression limit reached (500 for free tier)")
                   /\ st \notin {Num(401), Num(429)} =>
                        /\ res.status = 500
                        /\ res.error = Text("Compression failed")
                        /\ res.message = outcome[r].message

\* a quota failure of the service, answered on the binary endpoint
C1_Witness ==
    /\ req[1].ep = "binary"
    /\ Answered(1)
    /\ outcome[1].t = "error"
    /\ outcome[1].status = Num(429)
    /\ responses[1][1].status = 429

\* C2: a JSON request without an image field and a multipart request without
\* an image file get 400 "Missing image data" as their one response, and no
\* call on the compression service is made for them.
C2_MissingInput ==
    \A r \in Reqs :
        LET missing ==
                \/ /\ req[r].ep \in {"json", "inline"}
                   /\ req[r].body # Undefined
                   /\ req[r].body.image = Undefined
                \/ /\ req[r].ep = "binary"
                   /\ req[r].file = Undefined
        IN  missing =>
                /\ Answered(r)
                /\ Len(responses[r]) = 1
                /\ responses[r][1].status = 400
                /\ responses[r][1].kind = "json"
                /\ responses[r][1].error = Text("Missing image data")
                /\ ops[r] = <<>>
                /\ shrunk[r] = 0
                /\ remoteCount = 0

C2_Witness ==
    /\ req[1].ep = "binary"
    /\ req[1].file = Undefined
    /\ req[1].body.format = Str(S_jpg)
    /\ Answered(1)
    /\ responses[1][1].status = 400

\* C3: every error response of a compress endpoint is a JSON body with an
\* error and a message, also when the upload middleware or the JSON body
\* parser rejects the request.
C3_ErrorsAreJson ==
    \A r \in Reqs :
        \A i \in 1 .. Len(responses[r]) :
            (IsCompress(r) /\ responses[r][i].status >= 400) =>
                /\ responses[r][i].kind = "json"
                /\ responses[r][i].error # Undefined
                /\ responses[r][i].message # Undefined

\* C4: format "jpg" is normalized: the pipeline's resolved format is "jpeg"
\* and the binary endpoint's success response has Content-Type image/jpeg.
C4_JpgNormalized ==
    \A r \in Reqs :
        (req[r].ep = "binary" /\ ReachedPipeline(r) /\ req[r].body.format = Str(S_jpg)) =>
            /\ locals[r].format = Str(S_jpeg)
            /\ (Answered(r) /\ responses[r][1].status = 200) =>
                    responses[r][1].contentType = Str(ImageType(S_jpeg))

\* the place of a call in the fixed order
Rank(name) ==
    CASE name = "fromBuffer" -> 1
      [] name = "resize" -> 2
      [] name = "convert" -> 3
      [] name = "transform" -> 4
      [] name = "toBuffer" -> 5

\* a field that is absent or empty counts as not provided
Provided(v) == v # Undefined /\ v # Str(<<>>)

\* C5: the pipeline's calls come in the order submit, resize, convert,
\* background fill, materialize, each optional one at most once; convert is
\* there exactly when the requested format (png when none is given) is not
\* png; the background fill is there exactly when that format is jpeg or jpg,
\* with the given colour, or white when none is given.
C5_FixedOrder ==
    \A r \in Reqs :
        ReachedPipeline(r) =>
            LET chain == ops[r]
                o == req[r].body
                requested == IF Provided(o.format) THEN o.format.s ELSE S_png
            IN  /\ chain[1].op = "fromBuffer"
                /\ chain[Len(chain)].op = "toBuffer"
                /\ \A i, j \in 1 .. Len(chain) :
                      i < j => Rank(chain[i].op) < Rank(chain[j].op)
                /\ Has(chain, "convert") <=> requested # S_png
                /\ Has(chain, "transform") <=> requested \in {S_jpeg, S_jpg}
                /\ Has(chain, "transform") =>
                      Step(chain, "transform").background =
                          (IF Provided(o.background) THEN o.background ELSE Str(S_white))

\* a webp request with a background and both dimensions: resize and convert
\* are issued, the background is ignored
C5_Witness ==
    /\ ReachedPipeline(1)
    /\ req[1].body.format = Str(S_webp)
    /\ req[1].body.background = Str(S_red)
    /\ OpNames(ops[1]) = <<"fromBuffer", "resize", "convert", "toBuffer">>

\* the number a dimension of the model stands for
Meaning(v) ==
    CASE v = Num(0) -> 0
      [] v = Num(12) -> 12
      [] v = Str(<<"0">>) -> 0
      [] v = Str(<<"1", "2">>) -> 12

\* the resize the claim expects for the dimensions that count as given
ResizeAsClaimed(r, given(_)) ==
    LET w == req[r].body.width
        h == req[r].body.height
    IN  IF given(w) \/ given(h)
        THEN /\ Cardinality({i \in 1 .. Len(ops[r]) : ops[r][i].op = "resize"}) = 1
             /\ Step(ops[r], "resize").method = "fit"
             /\ Step(ops[r], "resize").width =
                    Num(IF given(w) THEN Meaning(w) ELSE 9999)
             /\ Step(ops[r], "resize").height =
                    Num(IF given(h) THEN Meaning(h) ELSE 9999)
        ELSE ~Has(ops[r], "resize")

\* C6 as stated: a resize is invoked if and only if width or height is
\* provided, with the provided values and 9999 for the other axis, in the
\* same way on the JSON endpoint and on the binary endpoint, the value 0
\* included.
C6_ResizeIffProvided ==
    \A r \in Reqs : ReachedPipeline(r) => ResizeAsClaimed(r, Provided)

\* a dimension the code takes as given: a number other than 0 on the JSON
\* endpoint, a non-empty text on the binary endpoint (so "0" is given there)
Given(v) == Provided(v) /\ v # Num(0)

\* C6 as amended: a resize is invoked if and only if width or height is
\* given, where a numeric 0 of the JSON endpoint counts as not given while the
\* text "0" of the binary endpoint counts as given; then exactly one "fit"
\* resize is invoked with the given values and 9999 for an axis not given.
C6_ResizeIffGiven ==
    \A r \in Reqs : ReachedPipeline(r) => ResizeAsClaimed(r, Given)

\* width 0 with height 12 on the JSON endpoint: the resize has width 9999
C6_Witness ==
    /\ req[1].ep = "json"
    /\ ReachedPipeline(1)
    /\ req[1].body.width = Num(0)
    /\ req[1].body.height = Num(12)
    /\ Step(ops[1], "resize").width = Num(9999)
    /\ Step(ops[1], "resize").height = Num(12)

\* the compress requests that reached the pipeline
PipelineCalls == {r \in Reqs : ReachedPipeline(r)}

NoneInFlight == \A r \in Reqs : pc[r] \in {"idle", "done"}

\* C7 as stated: once the requests have been answered, the service's counter
\* has risen by exactly the number of compress requests that reached the
\* pipeline, whatever status requests and rejected requests ran with them.
C7_CountRisesByCalls ==
    NoneInFlight => remoteCount = Cardinality(PipelineCalls)

\* C7 as amended: every pipeline call submits its image exactly once and never
\* again; the counter rises by one for each submission the service accepts
\* and by nothing for one it rejects, so it has risen by the number of
\* accepted submissions, at most the number of pipeline calls, and every
\* request answered with a success accounts for exactly one.
C7_OneSubmitPerCall ==
    /\ \A r \in Reqs :
          /\ ReachedPipeline(r) => Submits(ops[r]) = 1
          /\ ~ReachedPipeline(r) => ops[r] \in {<<>>, <<[op |-> "validate"]>>}
          /\ shrunk[r] <= Submits(ops[r])
          /\ (ReachedPipeline(r) /\ outcome[r].t = "buffer") => shrunk[r] = 1
    /\ remoteCount = Cardinality({r \in Reqs : shrunk[r] = 1})
    /\ remoteCount <= Cardinality(PipelineCalls)

\* two pipeline calls answered, one whose submission was rejected: risen by 1
C7_Witness ==
    /\ NoneInFlight
    /\ Cardinality(PipelineCalls) = 2
    /\ \E r \in Reqs : outcome[r].t = "error" /\ shrunk[r] = 0
    /\ remoteCount = 1

\* C8: a status request makes the one validation call and nothing else; a
\* successful validation is answered 200 "ok" with the count (0 while it is
\* unknown), a failed one 401 "Invalid API key" with the failure's message;
\* no image is submitted and the service's counter is left alone.
C8_Status ==
    /\ \A r \in Reqs :
          req[r].ep = "status" =>
              /\ ops[r] = <<[op |-> "validate"]>>
              /\ shrunk[r] = 0
              /\ Len(responses[r]) <= 1
              /\ Answered(r) =>
                    /\ Len(responses[r]) = 1
                    /\ LET res == responses[r][1]
                       IN  IF outcome[r].t = "error"
                           THEN /\ res.status = 401
                                /\ res.error = Text("Invalid API key")
                                /\ res.message = outcome[r].message
                           ELSE /\ res.status = 200
                                /\ res.state = Text("ok")
                                /\ res.count.t = "number"
                                /\ res.count.n <= remoteCount
                                /\ compressionCount = Undefined => res.count = Num(0)
    /\ remoteCount = Cardinality({r \in Reqs : IsCompress(r) /\ shrunk[r] > 0})

\* a validation that failed for a reason other than the key, answered 401
C8_Witness ==
    \E r \in Reqs :
        /\ req[r].ep = "status"
        /\ Answered(r)
        /\ outcome[r].t = "error"
        /\ outcome[r].status = Undefined
        /\ responses[r][1].status = 401

\* C9: every request that reaches the pipeline carries at least one byte.
C9_NonEmptyImage ==
    \A r \in Reqs : ReachedPipeline(r) => locals[r].imageSize > 0

\* C10: a compress request gets no response before its backend call has
\* completed and exactly one after; a failure is never answered with a
\* success, a completed pipeline is answered with the success or, when the
\* success response cannot be built, with the classifier's 500 alone; what a
\* request is answered depends on that request only.
C10_OneResponse ==
    \A r \in Reqs :
        /\ Len(responses[r]) <= 1
        /\ Answered(r) <=> Len(responses[r]) = 1
        /\ (IsCompress(r) /\ Answered(r) /\ outcome[r].t = "error") =>
              responses[r][1].status \in {401, 429, 500}
        /\ (IsCompress(r) /\ Answered(r) /\ outcome[r].t = "buffer") =>
              IF req[r].ep = "binary" /\ ~ValidHeaderValue(ImageType(locals[r].format.s))
              THEN /\ responses[r][1].status = 500
                   /\ responses[r][1].error = Text("Compression failed")
              ELSE responses[r][1].status = 200

\* the pipeline returned but the Content-Type header could not be set: the
\* 500 is the only response, while another request was answered with a success
C10_Witness ==
    \E r, q \in Reqs :
        /\ req[r].ep = "binary"
        /\ outcome[r].t = "buffer"
        /\ responses[r] # <<>>
        /\ responses[r][1].status = 500
        /\ Answered(q)
        /\ outcome[q].t = "buffer"
        /\ responses[q][1].status = 200
====
